---- MODULE Spec2Model ----
(***************************************************************************)
(* Model of the Sindhi corpus scripts:                                     *)
(*   scripts/preprocess_sindhi.py     the cleaning pipeline                *)
(*   scripts/analyze_sindhi_corpus.py SindhiCorpusAnalyzer                 *)
(*   scripts/chatgpt.py               the CLI analysis variant             *)
(* A text is a sequence of Unicode code points (naturals).                 *)
(***************************************************************************)
EXTENDS Integers, Sequences, FiniteSets, TLC

(***************************************************************************)
(* Code points named by the sources.                                       *)
(***************************************************************************)
NL == 10
SPACE == 32
BANG == 33
DIGIT5 == 53
LATIN_A == 97
QMARK == 1567
ALEF_MADDA == 1570
ALEF == 1575
LAM == 1604
MADDA == 1619
AIDIGIT == 1637
FULLSTOP == 1748
PRES_ALEF == 65165

(***************************************************************************)
(* Bounds of the checked inputs.                                           *)
(***************************************************************************)
MaxLen == 3
MaxCoreLen == 5
MaxWord == 2
MaxWords == 12
MaxToks == 5
MaxTop == 3
MaxSentWords == 25
MaxM == 10

(***************************************************************************)
(* Character classes.                                                      *)
(***************************************************************************)
\* str.isspace(), which is also \s of the re module on str patterns
IsSpace(c) ==
    \/ c \in 9..13
    \/ c \in 28..32
    \/ c \in {133, 160, 5760, 8232, 8233, 8239, 8287, 12288}
    \/ c \in 8192..8202

\* the ranges U+0600-06FF, U+0750-077F, U+08A0-08FF
InArabicRanges(c) ==
    \/ (c >= 1536 /\ c <= 1791)
    \/ (c >= 1872 /\ c <= 1919)
    \/ (c >= 2208 /\ c <= 2303)

\* a filter that lets every character through
AllowedEverything(c) == TRUE

\* allowed_pattern: the three ranges, \s, and the two literals U+06D4 U+061F
Allowed(c) ==
    \/ InArabicRanges(c)
    \/ IsSpace(c)
    \/ c \in {FULLSTOP, QMARK}

\* the class [U+06D4 U+061F !] of the sentence splitters
IsTerminator(c) == c \in {FULLSTOP, QMARK, BANG}

(***************************************************************************)
(* String helpers.                                                         *)
(***************************************************************************)
RECURSIVE Concat(_)
\* "".join(pieces)
Concat(pieces) ==
    IF pieces = <<>> THEN <<>>
    ELSE Head(pieces) \o Concat(Tail(pieces))

RECURSIVE LStrip(_)
LStrip(s) ==
    IF s = <<>> THEN <<>>
    ELSE IF IsSpace(Head(s)) THEN LStrip(Tail(s))
    ELSE s

RECURSIVE RStrip(_)
RStrip(s) ==
    IF s = <<>> THEN <<>>
    ELSE IF IsSpace(s[Len(s)]) THEN RStrip(SubSeq(s, 1, Len(s) - 1))
    ELSE s

\* str.strip()
Strip(s) == RStrip(LStrip(s))

RECURSIVE SplitWs(_, _)
\* str.split(): cur is the word being read
SplitWs(s, cur) ==
    IF s = <<>> THEN (IF cur = <<>> THEN <<>> ELSE <<cur>>)
    ELSE IF IsSpace(Head(s))
         THEN (IF cur = <<>> THEN SplitWs(Tail(s), <<>>)
               ELSE <<cur>> \o SplitWs(Tail(s), <<>>))
    ELSE SplitWs(Tail(s), Append(cur, Head(s)))

Words(s) == SplitWs(s, <<>>)

RECURSIVE JoinSp(_)
\* " ".join(words)
JoinSp(ws) ==
    IF ws = <<>> THEN <<>>
    ELSE IF Len(ws) = 1 THEN ws[1]
    ELSE ws[1] \o <<SPACE>> \o JoinSp(Tail(ws))

RECURSIVE ComposeNFC(_)
\* unicodedata.normalize("NFC", .) on the modelled code points: the
\* canonical composition ALEF + MADDA ABOVE -> ALEF WITH MADDA ABOVE
ComposeNFC(s) ==
    IF Len(s) < 2 THEN s
    ELSE IF s[1] = ALEF /\ s[2] = MADDA
         THEN <<ALEF_MADDA>> \o ComposeNFC(SubSeq(s, 3, Len(s)))
    ELSE <<s[1]>> \o ComposeNFC(Tail(s))

NFC(s) == ComposeNFC(s)

(***************************************************************************)
(* preprocess_sindhi.py: the pure steps.                                   *)
(***************************************************************************)
\* a filter that deletes instead of substituting
ReplacementDropped(ch) == <<>>

\* what line 50 puts in place of a character the pattern does not match
Replacement(ch) == <<SPACE>>

\* line 50: "".join(ch if re.match(allowed_pattern, ch) else " " for ch in text)
ScriptFilter(t) ==
    Concat([i \in 1..Len(t) |-> IF Allowed(t[i]) THEN <<t[i]>> ELSE Replacement(t[i])])

RECURSIVE SubWs(_, _)
\* re.sub(r"\s+", " ", s): inrun says the previous character was whitespace
SubWs(s, inrun) ==
    IF s = <<>> THEN <<>>
    ELSE IF IsSpace(Head(s))
         THEN (IF inrun THEN SubWs(Tail(s), TRUE)
               ELSE <<SPACE>> \o SubWs(Tail(s), TRUE))
    ELSE <<Head(s)>> \o SubWs(Tail(s), FALSE)

\* line 53
CollapseWhitespace(s) == Strip(SubWs(s, FALSE))

RECURSIVE ReSplit(_, _)
\* re.split(r"[terminators]", s): every terminator ends a fragment
ReSplit(s, cur) ==
    IF s = <<>> THEN <<cur>>
    ELSE IF IsTerminator(Head(s)) THEN <<cur>> \o ReSplit(Tail(s), <<>>)
    ELSE ReSplit(Tail(s), Append(cur, Head(s)))

RECURSIVE KeepNonEmpty(_)
\* fragments kept as they are: [s for s in fragments if s.strip()]
KeepNonEmpty(frags) ==
    IF frags = <<>> THEN <<>>
    ELSE IF Strip(Head(frags)) # <<>> THEN <<Head(frags)>> \o KeepNonEmpty(Tail(frags))
    ELSE KeepNonEmpty(Tail(frags))

RECURSIVE StripNonEmpty(_)
\* [s.strip() for s in fragments if s.strip()]
StripNonEmpty(frags) ==
    IF frags = <<>> THEN <<>>
    ELSE IF Strip(Head(frags)) # <<>>
         THEN <<Strip(Head(frags))>> \o StripNonEmpty(Tail(frags))
    ELSE StripNonEmpty(Tail(frags))

\* lines 57-58
SplitSentences(s) == StripNonEmpty(ReSplit(s, <<>>))

RECURSIVE ChunksOverlapping(_, _, _)
\* windows one word too long: words[i:i + max_words + 1]
ChunksOverlapping(words, i, m) ==
    IF i >= Len(words) THEN <<>>
    ELSE <<JoinSp(SubSeq(words, i + 1, IF i + m + 1 < Len(words) THEN i + m + 1 ELSE Len(words)))>>
         \o ChunksOverlapping(words, i + m, m)

RECURSIVE Chunks(_, _, _)
\* lines 70-72: for i in range(0, len(words), max_words): words[i:i + max_words]
Chunks(words, i, m) ==
    IF i >= Len(words) THEN <<>>
    ELSE <<JoinSp(SubSeq(words, i + 1, IF i + m < Len(words) THEN i + m ELSE Len(words)))>>
         \o Chunks(words, i + m, m)

\* lines 65-72, one sentence
SplitOne(sentence, m) ==
    IF Len(Words(sentence)) <= m THEN <<sentence>>
    ELSE Chunks(Words(sentence), 0, m)

RECURSIVE split_long_sentences(_, _)
split_long_sentences(ss, m) ==
    IF ss = <<>> THEN <<>>
    ELSE SplitOne(Head(ss), m) \o split_long_sentences(Tail(ss), m)

\* a stopword test that matches a stopword as a prefix of the word
KeepWordPrefix(w, stop) ==
    \A x \in stop : Len(x) > Len(w) \/ SubSeq(w, 1, Len(x)) # x

\* line 86: w not in stopwords
KeepWord(w, stop) == w \notin stop

RECURSIVE FilterWords(_, _)
FilterWords(ws, stop) ==
    IF ws = <<>> THEN <<>>
    ELSE IF KeepWord(Head(ws), stop) THEN <<Head(ws)>> \o FilterWords(Tail(ws), stop)
    ELSE FilterWords(Tail(ws), stop)

\* a sentence returned as it came, stopwords included
remove_stopwords_kept(sentence, stop) == sentence

\* lines 83-87
remove_stopwords(sentence, stop) == JoinSp(FilterWords(Words(sentence), stop))

\* line 81: set(line.strip() for line in f if line.strip())
LoadStopwordSet(lines) == {Strip(l) : l \in {x \in lines : Strip(x) # <<>>}}

(***************************************************************************)
(* analyze_sindhi_corpus.py and chatgpt.py: the pure functions.            *)
(***************************************************************************)
\* word_pattern of line 68: '[' + sindhi_chars[2:-1] + ']+'.  The slice
\* starts after the first backslash, so the class reads
\* [u0600-<U+06FF><U+0750>-...]: the letters u, 0, 6, 0, the range from
\* '0' (U+0030) to U+06FF, and the four remaining ranges.
AnalyzerWordChar(c) ==
    \/ c \in {117, 48, 54}
    \/ (c >= 48 /\ c <= 1791)
    \/ (c >= 1872 /\ c <= 1919)
    \/ (c >= 2208 /\ c <= 2303)
    \/ (c >= 64336 /\ c <= 65023)
    \/ (c >= 65136 /\ c <= 65279)

\* the word class without its first range, the Arabic block
ChatgptWordCharExtended(c) == (c >= 1872 /\ c <= 1919) \/ (c >= 2208 /\ c <= 2303)

\* ARABIC_SINDHI_RE of chatgpt.py line 24
ChatgptWordChar(c) == InArabicRanges(c)

RECURSIVE FindAll(_, _, _)
\* re.findall(r"[class]+", s): the maximal runs of class characters;
\* inclass[i] says whether s[i] is in the class
FindAll(s, inclass, cur) ==
    IF s = <<>> THEN (IF cur = <<>> THEN <<>> ELSE <<cur>>)
    ELSE IF Head(inclass) THEN FindAll(Tail(s), Tail(inclass), Append(cur, Head(s)))
    ELSE (IF cur = <<>> THEN <<>> ELSE <<cur>>) \o FindAll(Tail(s), Tail(inclass), <<>>)

\* analyze_sindhi_corpus.py lines 62-71
extract_sindhi_words(t) ==
    SelectSeq(FindAll(NFC(t), [i \in 1..Len(NFC(t)) |-> AnalyzerWordChar(NFC(t)[i])], <<>>),
              LAMBDA w : Len(w) > 1)

\* chatgpt.py lines 47-55
extract_words(t) == FindAll(t, [i \in 1..Len(t) |-> ChatgptWordChar(t[i])], <<>>)

RECURSIVE ReSplitRuns(_, _, _)
\* re.split(r"[terminators]+", s): a run of terminators is one separator
ReSplitRuns(s, cur, inrun) ==
    IF s = <<>> THEN <<cur>>
    ELSE IF IsTerminator(Head(s))
         THEN (IF inrun THEN ReSplitRuns(Tail(s), <<>>, TRUE)
               ELSE <<cur>> \o ReSplitRuns(Tail(s), <<>>, TRUE))
    ELSE ReSplitRuns(Tail(s), Append(cur, Head(s)), FALSE)

\* analyze_sindhi_corpus.py lines 91-95
split_sentences(t) == StripNonEmpty(ReSplitRuns(t, <<>>, FALSE))

\* the line boundaries of str.splitlines()
IsLineBreak(c) == c \in {10, 11, 12, 13, 28, 29, 30, 133, 8232, 8233}

RECURSIVE SplitLines(_, _)
\* str.splitlines(): "\r\n" is one boundary, no empty last line
SplitLines(s, cur) ==
    IF s = <<>> THEN (IF cur = <<>> THEN <<>> ELSE <<cur>>)
    ELSE IF IsLineBreak(Head(s))
         THEN <<cur>> \o SplitLines(IF Head(s) = 13 /\ Len(s) > 1 /\ s[2] = 10
                                    THEN Tail(Tail(s)) ELSE Tail(s), <<>>)
    ELSE SplitLines(Tail(s), Append(cur, Head(s)))

RECURSIVE CountInto(_, _)
\* Counter(words): the (word, count) pairs in first-seen order
CountInto(freq, ws) ==
    IF ws = <<>> THEN freq
    ELSE IF \E i \in 1..Len(freq) : freq[i][1] = Head(ws)
         THEN CountInto([i \in 1..Len(freq) |->
                            IF freq[i][1] = Head(ws) THEN <<freq[i][1], freq[i][2] + 1>>
                            ELSE freq[i]], Tail(ws))
    ELSE CountInto(Append(freq, <<Head(ws), 1>>), Tail(ws))

Counter(ws) == CountInto(<<>>, ws)

\* an unstable order: an entry goes before strictly smaller ones only
GoesBeforeStrict(a, b) == a[2] > b[2]

\* the sort key of most_common: an entry goes before the entries it is not
\* smaller than
GoesBefore(a, b) == a[2] >= b[2]

RECURSIVE InsertDesc(_, _)
InsertDesc(x, sorted) ==
    IF sorted = <<>> THEN <<x>>
    ELSE IF GoesBefore(x, Head(sorted)) THEN <<x>> \o sorted
    ELSE <<Head(sorted)>> \o InsertDesc(x, Tail(sorted))

RECURSIVE SortedDesc(_)
\* sorted(items, key=itemgetter(1), reverse=True): stable
SortedDesc(items) ==
    IF items = <<>> THEN <<>>
    ELSE InsertDesc(Head(items), SortedDesc(Tail(items)))

\* Counter.most_common(n) for an int n: heapq.nlargest(n, items, key=count)
most_common(freq, n) ==
    IF n <= 0 THEN <<>>
    ELSE SubSeq(SortedDesc(freq), 1, IF n < Len(freq) THEN n ELSE Len(freq))

\* analyze_sindhi_corpus.py lines 97-100, top_n=50
generate_word_frequency(ws) == most_common(Counter(ws), 50)

RECURSIVE SumLen(_)
SumLen(ws) == IF ws = <<>> THEN 0 ELSE Len(Head(ws)) + SumLen(Tail(ws))

SetOf(ws) == {ws[i] : i \in 1..Len(ws)}

\* numbers are fractions <<numerator, denominator>>, denominator > 0
Zero == <<0, 1>>
Frac(n, d) == <<n, d>>
FracSub(x, y) == <<x[1] * y[2] - y[1] * x[2], x[2] * y[2]>>
FracDiv(x, y) == IF y[1] > 0 THEN <<x[1] * y[2], x[2] * y[1]>> ELSE <<0 - x[1] * y[2], 0 - x[2] * y[1]>>
FracTimes(x, k) == <<x[1] * k, x[2]>>
IsZero(x) == x[1] = 0
IsPositive(x) == x[1] > 0

\* analyze_sindhi_corpus.py lines 73-89
calculate_corpus_statistics(t, name) ==
    LET words == extract_sindhi_words(t)
        sents == split_sentences(t)
    IN  [corpus_name |-> name,
         total_characters |-> Len(t),
         total_words |-> Len(words),
         total_sentences |-> Len(sents),
         unique_words |-> Cardinality(SetOf(words)),
         avg_word_length |-> IF words # <<>> THEN Frac(SumLen(words), Len(words)) ELSE Zero,
         avg_sentence_length |-> IF sents # <<>> THEN Frac(Len(words), Len(sents)) ELSE Zero,
         vocabulary_diversity |-> IF words # <<>> THEN Frac(Cardinality(SetOf(words)), Len(words)) ELSE Zero]

\* one entry of change_percent, lines 221-225
ChangePercent(cleaned, raw) ==
    IF IsPositive(raw) THEN FracTimes(FracDiv(FracSub(cleaned, raw), raw), 100) ELSE Zero

\* analyze_sindhi_corpus.py lines 203-228: the change_percent column
compare_corpora(rs, cs) ==
    << ChangePercent(Frac(cs.total_words, 1), Frac(rs.total_words, 1)),
       ChangePercent(Frac(cs.unique_words, 1), Frac(rs.unique_words, 1)),
       ChangePercent(cs.vocabulary_diversity, rs.vocabulary_diversity),
       ChangePercent(Frac(cs.total_sentences, 1), Frac(rs.total_sentences, 1)),
       ChangePercent(cs.avg_sentence_length, rs.avg_sentence_length) >>

\* round(x, 3) of a fraction, in thousandths (ties to even)
Round3(n, d) ==
    LET q == (n * 1000) \div d
        r == (n * 1000) % d
    IN  IF 2 * r > d THEN q + 1
        ELSE IF 2 * r = d THEN q + (q % 2)
        ELSE q

\* chatgpt.py lines 58-76: the CorpusStats record
compute_stats(t) ==
    LET lines == SelectSeq(SplitLines(t, <<>>), LAMBDA ln : Strip(ln) # <<>>)
        words == extract_words(t)
    IN  [line_count |-> Len(lines),
         word_count |-> Len(words),
         unique_word_count |-> Len(Counter(words)),
         avg_word_length |-> IF Len(words) # 0 THEN Round3(SumLen(words), Len(words)) ELSE 0]

\* chatgpt.py lines 82-87: the rows under the header
FrequencyRows(freq, top_n) ==
    [i \in 1..Len(most_common(freq, top_n)) |->
        <<i, most_common(freq, top_n)[i][1], most_common(freq, top_n)[i][2]>>]

(***************************************************************************)
(* Inputs.                                                                 *)
(***************************************************************************)
Alphabet == {NL, SPACE, BANG, LATIN_A, QMARK, ALEF, MADDA, AIDIGIT, FULLSTOP}
CoreAlphabet == {SPACE, LATIN_A, ALEF, FULLSTOP}

TextsOver(A, n) == UNION {[1..k -> A] : k \in 0..n}

ArabicWords == UNION {[1..k -> {ALEF, LAM}] : k \in 1..MaxWord}
LatinWords == UNION {[1..k -> {LATIN_A}] : k \in 1..MaxWord}

\* <Arabic-script word> U+06D4 <space> <Latin-only word> U+061F
FormTexts == {wa \o <<FULLSTOP, SPACE>> \o wl \o <<QMARK>> : wa \in ArabicWords, wl \in LatinWords}

\* n one-letter words U+0621, U+0622, ... separated by single spaces
WordList(n) == [i \in 1..n |-> <<1568 + i>>]
LongTexts == {JoinSp(WordList(n)) : n \in 1..MaxWords}

RawTexts == TextsOver(Alphabet, MaxLen) \cup TextsOver(CoreAlphabet, MaxCoreLen)
            \cup FormTexts \cup LongTexts

\* the files raw_corpus.txt and cleaned_corpus.txt the analysis scripts read
NoFile == [exists |-> FALSE, content |-> <<>>]
FileOf(t) == [exists |-> TRUE, content |-> t]

AnaAlphabet == {NL, SPACE, BANG, DIGIT5, LATIN_A, ALEF, MADDA, FULLSTOP, PRES_ALEF}
AnaRawFiles == {NoFile} \cup {FileOf(t) : t \in TextsOver(AnaAlphabet, MaxLen)}
CleanedSamples == {<<>>, <<ALEF, ALEF, NL>>,
                   <<ALEF, LAM, SPACE, ALEF, LAM, NL, LAM, LAM, NL>>}
AnaCleanedFiles == {NoFile} \cup {FileOf(t) : t \in CleanedSamples}

Tokens == {<<ALEF>>, <<LAM>>, <<ALEF, LAM>>}
TokenTexts == {JoinSp(ws) \o <<NL>> : ws \in TextsOver(Tokens, MaxToks)}
CgCleanedFiles == {NoFile} \cup {FileOf(t) : t \in TokenTexts}
CgRawFiles == {NoFile, FileOf(<<>>), FileOf(<<ALEF, MADDA, FULLSTOP, SPACE, LATIN_A, QMARK, NL>>)}
TopNs == (0 - 1)..MaxTop

\* the lines of sindhi_stopwords.txt
StopLines == {<<ALEF, NL>>, <<SPACE, AIDIGIT, NL>>, <<NL>>}
StopFiles == SUBSET StopLines

(***************************************************************************)
(* State.                                                                  *)
(***************************************************************************)
VARIABLES pc, text, clean_text, sentences, processed_sentences, stopwords,
          max_words, output_file,
          raw_file, cleaned_file, top_n_words, plot_top_n,
          raw_text, cleaned_text, raw_stats, cleaned_stats,
          raw_words, cleaned_words, raw_sentences, cleaned_sentences,
          raw_word_freq, cleaned_word_freq, raw_freq, cleaned_freq,
          comparison, summary, word_frequency_csv, written,
          error, exit_code, warnings

\* preprocess_sindhi.py
preVars == <<text, clean_text, sentences, processed_sentences, stopwords,
             max_words, output_file>>
\* the inputs of the analysis scripts
inVars == <<raw_file, cleaned_file, top_n_words, plot_top_n>>
textVars == <<raw_text, cleaned_text>>
statVars == <<raw_stats, cleaned_stats, raw_words, cleaned_words,
              raw_sentences, cleaned_sentences>>
freqVars == <<raw_word_freq, cleaned_word_freq, raw_freq, cleaned_freq>>
outVars == <<comparison, summary, word_frequency_csv, written>>
endVars == <<error, exit_code, warnings>>
anaVars == <<inVars, textVars, statVars, freqVars, outVars, endVars>>
vars == <<pc, preVars, anaVars>>

\* nothing of the analysis scripts has run
InitLocals ==
    /\ raw_text = <<>> /\ cleaned_text = <<>>
    /\ raw_stats = <<>> /\ cleaned_stats = <<>>
    /\ raw_words = <<>> /\ cleaned_words = <<>>
    /\ raw_sentences = <<>> /\ cleaned_sentences = <<>>
    /\ raw_word_freq = <<>> /\ cleaned_word_freq = <<>>
    /\ raw_freq = <<>> /\ cleaned_freq = <<>>
    /\ comparison = <<>> /\ summary = <<>>
    /\ word_frequency_csv = <<>> /\ written = {}
    /\ error = "none" /\ exit_code = "none" /\ warnings = {}

InitPre ==
    /\ text = <<>>
    /\ clean_text = <<>>
    /\ sentences = <<>>
    /\ processed_sentences = <<>>
    /\ stopwords = {}
    /\ output_file = NoFile

\* preprocess_sindhi.py is started; line 76 passes max_words=10
Init ==
    /\ pc = "read"
    /\ max_words = 10
    /\ InitPre
    /\ raw_file = NoFile /\ cleaned_file = NoFile
    /\ top_n_words = 200 /\ plot_top_n = 30
    /\ InitLocals

(***************************************************************************)
(* preprocess_sindhi.py, top to bottom.                                    *)
(***************************************************************************)
\* lines 36-37
ReadRaw ==
    /\ pc = "read"
    /\ \E t \in RawTexts : text' = t
    /\ pc' = "normalize"
    /\ UNCHANGED <<clean_text, sentences, processed_sentences, stopwords, max_words, output_file>>
    /\ UNCHANGED anaVars

\* line 40
Normalize ==
    /\ pc = "normalize"
    /\ text' = NFC(text)
    /\ pc' = "filter"
    /\ UNCHANGED <<clean_text, sentences, processed_sentences, stopwords, max_words, output_file>>
    /\ UNCHANGED anaVars

\* lines 47-50
RemoveUnwanted ==
    /\ pc = "filter"
    /\ clean_text' = ScriptFilter(text)
    /\ pc' = "whitespace"
    /\ UNCHANGED <<text, sentences, processed_sentences, stopwords, max_words, output_file>>
    /\ UNCHANGED anaVars

\* line 53
NormalizeWhitespace ==
    /\ pc = "whitespace"
    /\ clean_text' = CollapseWhitespace(clean_text)
    /\ pc' = "split"
    /\ UNCHANGED <<text, sentences, processed_sentences, stopwords, max_words, output_file>>
    /\ UNCHANGED anaVars

\* lines 57-58
Split ==
    /\ pc = "split"
    /\ sentences' = SplitSentences(clean_text)
    /\ pc' = "split_long"
    /\ UNCHANGED <<text, clean_text, processed_sentences, stopwords, max_words, output_file>>
    /\ UNCHANGED anaVars

\* line 76
SplitLong ==
    /\ pc = "split_long"
    /\ processed_sentences' = split_long_sentences(sentences, max_words)
    /\ pc' = "load_stopwords"
    /\ UNCHANGED <<text, clean_text, sentences, stopwords, max_words, output_file>>
    /\ UNCHANGED anaVars

\* lines 80-81
LoadStopwords ==
    /\ pc = "load_stopwords"
    /\ \E f \in StopFiles : stopwords' = LoadStopwordSet(f)
    /\ pc' = "remove_stopwords"
    /\ UNCHANGED <<text, clean_text, sentences, processed_sentences, max_words, output_file>>
    /\ UNCHANGED anaVars

\* line 90
RemoveStopwords ==
    /\ pc = "remove_stopwords"
    /\ processed_sentences' =
           [i \in 1..Len(processed_sentences) |-> remove_stopwords(processed_sentences[i], stopwords)]
    /\ pc' = "drop_empty"
    /\ UNCHANGED <<text, clean_text, sentences, stopwords, max_words, output_file>>
    /\ UNCHANGED anaVars

\* line 93
DropEmpty ==
    /\ pc = "drop_empty"
    /\ processed_sentences' = SelectSeq(processed_sentences, LAMBDA x : Strip(x) # <<>>)
    /\ pc' = "write"
    /\ UNCHANGED <<text, clean_text, sentences, stopwords, max_words, output_file>>
    /\ UNCHANGED anaVars

\* lines 96-98
WriteOutput ==
    /\ pc = "write"
    /\ output_file' = [exists |-> TRUE,
                       content |-> Concat([i \in 1..Len(processed_sentences) |->
                                              processed_sentences[i] \o <<NL>>])]
    /\ pc' = "done"
    /\ UNCHANGED <<text, clean_text, sentences, processed_sentences, stopwords, max_words>>
    /\ UNCHANGED anaVars

Next ==
    \/ ReadRaw
    \/ Normalize
    \/ RemoveUnwanted
    \/ NormalizeWhitespace
    \/ Split
    \/ SplitLong
    \/ LoadStopwords
    \/ RemoveStopwords
    \/ DropEmpty
    \/ WriteOutput

Spec == Init /\ [][Next]_vars

(***************************************************************************)
(* analyze_sindhi_corpus.py: main() and SindhiCorpusAnalyzer.analyze_corpus *)
(***************************************************************************)
InitAnalyze ==
    /\ pc = "ana_main"
    /\ max_words = 10
    /\ InitPre
    /\ raw_file \in AnaRawFiles
    /\ cleaned_file \in AnaCleanedFiles
    /\ top_n_words = 200 /\ plot_top_n = 30
    /\ InitLocals

\* lines 50-60
load_corpus(f) == IF f.exists THEN f.content ELSE <<>>

\* lines 311-332
AnaMain ==
    /\ pc = "ana_main"
    /\ warnings' = warnings
                   \cup (IF ~cleaned_file.exists THEN {"cleaned corpus not found"} ELSE {})
                   \cup (IF ~cleaned_file.exists /\ ~raw_file.exists
                         THEN {"raw corpus not found"} ELSE {})
    /\ pc' = IF ~cleaned_file.exists /\ ~raw_file.exists THEN "ana_returned" ELSE "ana_load"
    /\ UNCHANGED <<preVars, inVars, textVars, statVars, freqVars, outVars, error, exit_code>>

\* lines 235-240
AnaLoad ==
    /\ pc = "ana_load"
    /\ raw_text' = load_corpus(raw_file)
    /\ cleaned_text' = load_corpus(cleaned_file)
    /\ warnings' = warnings
                   \cup (IF ~raw_file.exists THEN {"raw file not found"} ELSE {})
                   \cup (IF ~cleaned_file.exists THEN {"cleaned file not found"} ELSE {})
                   \cup (IF raw_text' = <<>> /\ cleaned_text' = <<>>
                         THEN {"both corpora are empty"} ELSE {})
    /\ pc' = IF raw_text' = <<>> /\ cleaned_text' = <<>> THEN "ana_returned" ELSE "ana_stats"
    /\ UNCHANGED <<preVars, inVars, statVars, freqVars, outVars, error, exit_code>>

\* lines 244-245
AnaStats ==
    /\ pc = "ana_stats"
    /\ raw_stats' = calculate_corpus_statistics(raw_text, "raw_corpus")
    /\ raw_words' = extract_sindhi_words(raw_text)
    /\ raw_sentences' = split_sentences(raw_text)
    /\ cleaned_stats' = calculate_corpus_statistics(cleaned_text, "cleaned_corpus")
    /\ cleaned_words' = extract_sindhi_words(cleaned_text)
    /\ cleaned_sentences' = split_sentences(cleaned_text)
    /\ pc' = "ana_freq"
    /\ UNCHANGED <<preVars, inVars, textVars, freqVars, outVars, endVars>>

\* lines 249-250
AnaFreq ==
    /\ pc = "ana_freq"
    /\ raw_word_freq' = generate_word_frequency(raw_words)
    /\ cleaned_word_freq' = generate_word_frequency(cleaned_words)
    /\ pc' = "ana_visualize"
    /\ UNCHANGED <<preVars, inVars, textVars, statVars, raw_freq, cleaned_freq, outVars, endVars>>

\* lines 254-256: the word cloud (or its fallback bar chart, lines 131-161)
\* and the frequency plot are drawn when there is something to draw
AnaVisualize ==
    /\ pc = "ana_visualize"
    /\ written' = written
                  \cup (IF cleaned_words # <<>> THEN {"wordcloud.png"} ELSE {})
                  \cup (IF cleaned_word_freq # <<>> THEN {"frequency_distribution.png"} ELSE {})
    /\ pc' = "ana_save"
    /\ UNCHANGED <<preVars, inVars, textVars, statVars, freqVars,
                   comparison, summary, word_frequency_csv, endVars>>

\* lines 260-268
AnaSave ==
    /\ pc = "ana_save"
    /\ word_frequency_csv' = cleaned_word_freq
    /\ comparison' = compare_corpora(raw_stats, cleaned_stats)
    /\ written' = written \cup {"word_frequency.csv", "corpus_statistics.csv",
                                "corpus_comparison.csv"}
    /\ pc' = "ana_summary"
    /\ UNCHANGED <<preVars, inVars, textVars, statVars, freqVars, summary, endVars>>

\* lines 271-273 with print_analysis_summary, lines 275-309: the divisions of
\* lines 295-296 are not guarded
AnaSummary ==
    /\ pc = "ana_summary"
    /\ IF raw_stats.total_words = 0 \/ raw_stats.unique_words = 0
       THEN /\ error' = "ZeroDivisionError"
            /\ pc' = "ana_crashed"
            /\ UNCHANGED summary
       ELSE /\ summary' = << FracTimes(Frac(cleaned_stats.total_words - raw_stats.total_words,
                                            raw_stats.total_words), 100),
                             FracTimes(Frac(cleaned_stats.unique_words - raw_stats.unique_words,
                                            raw_stats.unique_words), 100) >>
            /\ pc' = "ana_done"
            /\ UNCHANGED error
    /\ UNCHANGED <<preVars, inVars, textVars, statVars, freqVars,
                   comparison, word_frequency_csv, written, exit_code, warnings>>

NextAnalyze ==
    \/ AnaMain
    \/ AnaLoad
    \/ AnaStats
    \/ AnaFreq
    \/ AnaVisualize
    \/ AnaSave
    \/ AnaSummary

SpecAnalyze == InitAnalyze /\ [][NextAnalyze]_vars

(***************************************************************************)
(* chatgpt.py: main()                                                      *)
(* The file as committed does not compile: its line 6, from __future__     *)
(* import annotations, follows other imports.  The functions are modelled  *)
(* as they are written, that is, as they run once that line is first.      *)
(***************************************************************************)
InitChatgpt ==
    /\ pc = "cg_main"
    /\ max_words = 10
    /\ InitPre
    /\ raw_file \in CgRawFiles
    /\ cleaned_file \in CgCleanedFiles
    /\ top_n_words \in TopNs
    /\ plot_top_n = 30
    /\ InitLocals

\* lines 40-44
read_text_file(f) == NFC(f.content)

\* lines 163-183
CgMain ==
    /\ pc = "cg_main"
    /\ IF ~raw_file.exists \/ ~cleaned_file.exists
       THEN /\ exit_code' = 2
            /\ warnings' = warnings \cup {IF ~raw_file.exists THEN "missing raw file"
                                          ELSE "missing cleaned file"}
            /\ pc' = "cg_returned"
       ELSE /\ pc' = "cg_read_raw"
            /\ UNCHANGED <<exit_code, warnings>>
    /\ UNCHANGED <<preVars, inVars, textVars, statVars, freqVars, outVars, error>>

\* lines 186-187
CgReadRaw ==
    /\ pc = "cg_read_raw"
    /\ raw_text' = read_text_file(raw_file)
    /\ raw_stats' = compute_stats(raw_text')
    /\ raw_freq' = Counter(extract_words(raw_text'))
    /\ pc' = "cg_read_cleaned"
    /\ UNCHANGED <<preVars, inVars, cleaned_text, cleaned_stats, raw_words, cleaned_words,
                   raw_sentences, cleaned_sentences, raw_word_freq, cleaned_word_freq,
                   cleaned_freq, outVars, endVars>>

\* lines 190-191
CgReadCleaned ==
    /\ pc = "cg_read_cleaned"
    /\ cleaned_text' = read_text_file(cleaned_file)
    /\ cleaned_stats' = compute_stats(cleaned_text')
    /\ cleaned_freq' = Counter(extract_words(cleaned_text'))
    /\ pc' = "cg_save_stats"
    /\ UNCHANGED <<preVars, inVars, raw_text, raw_stats, raw_words, cleaned_words,
                   raw_sentences, cleaned_sentences, raw_word_freq, cleaned_word_freq,
                   raw_freq, outVars, endVars>>

\* lines 194-195
CgSaveStats ==
    /\ pc = "cg_save_stats"
    /\ written' = written \cup {"corpus_statistics_before.csv", "corpus_statistics_after.csv"}
    /\ pc' = "cg_save_freq"
    /\ UNCHANGED <<preVars, inVars, textVars, statVars, freqVars,
                   comparison, summary, word_frequency_csv, endVars>>

\* line 198 with save_word_frequency_csv, lines 79-87
CgSaveFreq ==
    /\ pc = "cg_save_freq"
    /\ word_frequency_csv' = FrequencyRows(cleaned_freq, top_n_words)
    /\ written' = written \cup {"word_frequency.csv"}
    /\ pc' = "cg_plots"
    /\ UNCHANGED <<preVars, inVars, textVars, statVars, freqVars, comparison, summary, endVars>>

\* lines 202-211: each drawing may fail (font, renderer) and is then only
\* reported; nothing is drawn from an empty table
CgPlots ==
    /\ pc = "cg_plots"
    /\ \E plot_ok \in BOOLEAN, cloud_ok \in BOOLEAN :
           /\ written' = written
                  \cup (IF plot_ok /\ most_common(cleaned_freq, plot_top_n) # <<>>
                        THEN {"frequency_distribution.png"} ELSE {})
                  \cup (IF cloud_ok /\ cleaned_freq # <<>> THEN {"wordcloud.png"} ELSE {})
           /\ warnings' = warnings
                  \cup (IF most_common(cleaned_freq, plot_top_n) = <<>> THEN {"no tokens to plot"}
                        ELSE IF ~plot_ok THEN {"failed to create frequency plot"} ELSE {})
                  \cup (IF cleaned_freq = <<>> THEN {"empty frequency"}
                        ELSE IF ~cloud_ok THEN {"failed to create wordcloud"} ELSE {})
    /\ pc' = "cg_return"
    /\ UNCHANGED <<preVars, inVars, textVars, statVars, freqVars,
                   comparison, summary, word_frequency_csv, error, exit_code>>

\* lines 213-215
CgReturn ==
    /\ pc = "cg_return"
    /\ exit_code' = 0
    /\ pc' = "cg_done"
    /\ UNCHANGED <<preVars, inVars, textVars, statVars, freqVars, outVars, error, warnings>>

NextChatgpt ==
    \/ CgMain
    \/ CgReadRaw
    \/ CgReadCleaned
    \/ CgSaveStats
    \/ CgSaveFreq
    \/ CgPlots
    \/ CgReturn

SpecChatgpt == InitChatgpt /\ [][NextChatgpt]_vars

(***************************************************************************)
(* The three scripts together: any one of them is started.                 *)
(***************************************************************************)
InitAll == Init \/ InitAnalyze \/ InitChatgpt

NextAll ==
    \/ Next
    \/ NextAnalyze
    \/ NextChatgpt

SpecAll == InitAll /\ [][NextAll]_vars

(***************************************************************************)
(* split_long_sentences on its own: any sentences, any max_words >= 1.     *)
(***************************************************************************)
ChunkSentences == {JoinSp(WordList(n)) : n \in 1..MaxSentWords}

InitSplitLong ==
    /\ pc = "split_long"
    /\ max_words \in 1..MaxM
    /\ text = <<>>
    /\ clean_text = <<>>
    /\ sentences \in UNION {[1..k -> ChunkSentences] : k \in 1..2}
    /\ processed_sentences = <<>>
    /\ stopwords = {}
    /\ output_file = NoFile
    /\ raw_file = NoFile /\ cleaned_file = NoFile
    /\ top_n_words = 200 /\ plot_top_n = 30
    /\ InitLocals

SpecSplitLong == InitSplitLong /\ [][SplitLong]_vars

(***************************************************************************)
(* The cleaning pipeline followed by an analysis of what it wrote:         *)
(* preprocess_sindhi.py reads data/raw_corpus.txt and writes               *)
(* processed/cleaned_corpus.txt; that file, put where the analysis scripts *)
(* look for it (data/cleaned_corpus.txt), is then analysed by either one.  *)
(***************************************************************************)
InitPipelineAnalysis ==
    /\ pc = "read"
    /\ max_words = 10
    /\ InitPre
    /\ raw_file \in {FileOf(t) : t \in RawTexts}
    /\ cleaned_file = NoFile
    /\ top_n_words = 200 /\ plot_top_n = 30
    /\ InitLocals

\* preprocess_sindhi.py lines 36-37, reading the file the analysis reads too
ReadRawFile ==
    /\ pc = "read"
    /\ raw_file.exists
    /\ text' = raw_file.content
    /\ pc' = "normalize"
    /\ UNCHANGED <<clean_text, sentences, processed_sentences, stopwords, max_words, output_file>>
    /\ UNCHANGED anaVars

\* analyze_sindhi_corpus.py is run on the written file
RunAnalyzeOnOutput ==
    /\ pc = "done"
    /\ output_file.exists
    /\ cleaned_file' = output_file
    /\ pc' = "ana_main"
    /\ UNCHANGED <<preVars, raw_file, top_n_words, plot_top_n, textVars, statVars,
                   freqVars, outVars, endVars>>

\* chatgpt.py is run on the written file
RunChatgptOnOutput ==
    /\ pc = "done"
    /\ output_file.exists
    /\ cleaned_file' = output_file
    /\ pc' = "cg_main"
    /\ UNCHANGED <<preVars, raw_file, top_n_words, plot_top_n, textVars, statVars,
                   freqVars, outVars, endVars>>

NextPipelineAnalysis ==
    \/ ReadRawFile
    \/ Normalize
    \/ RemoveUnwanted
    \/ NormalizeWhitespace
    \/ Split
    \/ SplitLong
    \/ LoadStopwords
    \/ RemoveStopwords
    \/ DropEmpty
    \/ WriteOutput
    \/ RunAnalyzeOnOutput
    \/ RunChatgptOnOutput
    \/ NextAnalyze
    \/ NextChatgpt

SpecPipelineAnalysis == InitPipelineAnalysis /\ [][NextPipelineAnalysis]_vars

(***************************************************************************)
(* Properties of the cleaning pipeline.                                    *)
(***************************************************************************)
HasTerminator(s) == \E i \in 1..Len(s) : s[i] \in {FULLSTOP, QMARK, BANG}
HasSpace(s) == \E i \in 1..Len(s) : IsSpace(s[i])
Trimmed(s) == s # <<>> /\ ~IsSpace(s[1]) /\ ~IsSpace(s[Len(s)])

\* C1: after the script filter (step 3) the text has exactly the length of
\* its input, every character being the input character or one space; the
\* empty text gives the empty text.
C1_FilterKeepsLength ==
    pc = "whitespace" =>
        /\ Len(clean_text) = Len(text)
        /\ \A i \in 1..Len(text) : clean_text[i] = text[i] \/ clean_text[i] = SPACE

C1_Witness ==
    /\ pc = "whitespace"
    /\ Len(text) = 3
    /\ clean_text[1] = text[1] /\ ~IsSpace(text[1])
    /\ clean_text[2] = SPACE /\ text[2] # SPACE

\* C4: the script filter keeps a character unchanged if and only if it is in
\* a permitted range, is whitespace, or is one of U+06D4, U+061F, '!'.
C4_KeptIffPermittedOrTerminator ==
    pc = "whitespace" =>
        \A i \in 1..Len(text) :
            (i <= Len(clean_text) /\ clean_text[i] = text[i])
                <=> (InArabicRanges(text[i]) \/ IsSpace(text[i])
                     \/ text[i] \in {FULLSTOP, QMARK, BANG})

\* C6: on <Arabic word> U+06D4 <space> <Latin word> U+061F, steps 3-5 give
\* two sentences, neither containing a terminator (the claim as written).
C6_TwoSentences ==
    (pc = "split_long" /\ text \in FormTexts) =>
        /\ Len(sentences) = 2
        /\ \A i \in 1..Len(sentences) : ~HasTerminator(sentences[i])

\* C6 as amended: on such a text steps 3-5 give exactly one sentence, the
\* Arabic-script word, and it contains no terminator.
C6_OneSentence ==
    (pc = "split_long" /\ text \in FormTexts) =>
        /\ Len(sentences) = 1
        /\ \E wa \in ArabicWords : sentences[1] = wa /\ SubSeq(text, 1, Len(wa)) = wa
                                   /\ text[Len(wa) + 1] = FULLSTOP
        /\ ~HasTerminator(sentences[1])

C6_Witness == pc = "split_long" /\ text \in FormTexts /\ Len(text) = 2 * MaxWord + 3

\* the indices of the words of ws that are not stopwords, and the k-th of them
KeptIndices(ws, stop) == {i \in 1..Len(ws) : ws[i] \notin stop}
KthKept(ws, stop, k) ==
    CHOOSE i \in KeptIndices(ws, stop) :
        Cardinality({j \in KeptIndices(ws, stop) : j < i}) = k - 1

\* r is s with its stopwords taken out
StopwordsRemoved(s, r, stop) ==
    /\ Len(Words(r)) = Cardinality(KeptIndices(Words(s), stop))
    /\ \A k \in 1..Len(Words(r)) : Words(r)[k] = Words(s)[KthKept(Words(s), stop, k)]
    /\ \A k \in 1..Len(Words(r)) : Words(r)[k] \notin stop
    /\ \A i \in 1..Len(r) : IsSpace(r[i]) =>
           r[i] = SPACE /\ i > 1 /\ i < Len(r) /\ ~IsSpace(r[i + 1])

\* C8: remove_stopwords returns exactly the words of the sentence that are
\* not in the stopword set, in order and with multiplicity, joined by single
\* spaces.
C8_StopwordsRemoved ==
    [][pc = "remove_stopwords" =>
          /\ Len(processed_sentences') = Len(processed_sentences)
          /\ \A i \in 1..Len(processed_sentences) :
                 StopwordsRemoved(processed_sentences[i], processed_sentences'[i], stopwords)]_vars

C8_Witness ==
    /\ pc = "drop_empty"
    /\ stopwords # {}
    /\ \E i \in 1..Len(processed_sentences) :
           /\ Len(Words(processed_sentences[i])) >= 2
           /\ Len(Words(split_long_sentences(sentences, max_words)[i]))
                  > Len(Words(processed_sentences[i]))

(***************************************************************************)
(* Properties of the sentence splitters.                                   *)
(***************************************************************************)
\* the positions that bound a fragment of t: the terminators and both ends
Boundaries(t) == {0, Len(t) + 1} \cup {i \in 1..Len(t) : t[i] \in {FULLSTOP, QMARK, BANG}}

\* the fragments <<a, b>> between two neighbouring boundaries that hold
\* something other than whitespace
Fragments(t) ==
    {p \in Boundaries(t) \X Boundaries(t) :
        /\ p[1] < p[2]
        /\ \A x \in Boundaries(t) : ~(p[1] < x /\ x < p[2])
        /\ \E i \in (p[1] + 1)..(p[2] - 1) : ~IsSpace(t[i])}

KthFragment(t, k) ==
    CHOOSE p \in Fragments(t) : Cardinality({q \in Fragments(t) : q[1] < p[1]}) = k - 1

\* fragment p of t without the whitespace at its ends
TrimmedFragment(t, p) ==
    LET inner == {i \in (p[1] + 1)..(p[2] - 1) : ~IsSpace(t[i])}
        lo == CHOOSE i \in inner : \A j \in inner : i <= j
        hi == CHOOSE i \in inner : \A j \in inner : j <= i
    IN  SubSeq(t, lo, hi)

SentencesOf(t, ss) ==
    /\ Len(ss) = Cardinality(Fragments(t))
    /\ \A k \in 1..Len(ss) :
           /\ ss[k] = TrimmedFragment(t, KthFragment(t, k))
           /\ Trimmed(ss[k])
           /\ ~HasTerminator(ss[k])

\* C5: the sentence splitter returns, in source order, exactly the trimmed
\* non-empty fragments between terminators: no sentence is empty, none has
\* whitespace at an end, none contains a terminator.
C5_SentencesAreTrimmedFragments ==
    /\ pc = "split_long" => SentencesOf(clean_text, sentences)
    /\ pc = "ana_freq" => /\ SentencesOf(raw_text, raw_sentences)
                          /\ SentencesOf(cleaned_text, cleaned_sentences)

C5_Witness ==
    /\ pc = "split_long"
    /\ Len(sentences) = 2
    /\ \E i \in 1..(Len(clean_text) - 1) : clean_text[i] = FULLSTOP /\ clean_text[i + 1] = SPACE

(***************************************************************************)
(* Properties of split_long_sentences.                                     *)
(***************************************************************************)
NumChunks(n, m) == IF n <= m THEN 1 ELSE (n + m - 1) \div m

RECURSIVE ChunksBefore(_, _, _)
\* how many output sentences the sentences before the j-th give
ChunksBefore(ss, j, m) ==
    IF j <= 1 THEN 0
    ELSE ChunksBefore(ss, j - 1, m) + NumChunks(Len(Words(ss[j - 1])), m)

\* C7: a sentence of n <= m words is emitted unchanged; one of n > m words
\* becomes ceil(n/m) consecutive chunks of m words, the last of
\* n - m*(ceil(n/m)-1), which together are the words of the sentence in order.
C7_ChunksOfMaxWords ==
    pc = "load_stopwords" =>
        /\ Len(processed_sentences) = ChunksBefore(sentences, Len(sentences) + 1, max_words)
        /\ \A j \in 1..Len(sentences) :
               LET W == Words(sentences[j])
                   n == Len(W)
                   o == ChunksBefore(sentences, j, max_words)
                   c == NumChunks(n, max_words)
               IN  IF n <= max_words
                   THEN processed_sentences[o + 1] = sentences[j]
                   ELSE \A k \in 1..c :
                            LET C == Words(processed_sentences[o + k])
                            IN  /\ Len(C) = IF k < c THEN max_words ELSE n - max_words * (c - 1)
                                /\ \A q \in 1..Len(C) : C[q] = W[(k - 1) * max_words + q]

\* the sentence of 25 words cut at 10 words: chunks of 10, 10 and 5
C7_Witness ==
    /\ pc = "load_stopwords"
    /\ max_words = 10
    /\ Len(sentences) = 1
    /\ Len(Words(sentences[1])) = 25
    /\ Len(processed_sentences) = 3
    /\ Len(Words(processed_sentences[3])) = 5

(***************************************************************************)
(* Properties of the word extractors and the statistics.                   *)
(***************************************************************************)
InAnalyzerRanges(c) ==
    \/ InArabicRanges(c)
    \/ (c >= 64336 /\ c <= 65023)
    \/ (c >= 65136 /\ c <= 65279)

CharsOf(ws) == UNION {{ws[i][j] : j \in 1..Len(ws[i])} : i \in 1..Len(ws)}

\* C2: every character of every token of extract_sindhi_words and of
\* extract_words lies in a permitted Arabic/Sindhi range; no token holds an
\* ASCII digit or a Latin letter.
C2_TokensInPermittedRanges ==
    /\ pc = "ana_freq" => /\ \A c \in CharsOf(raw_words) : InAnalyzerRanges(c)
                          /\ \A c \in CharsOf(cleaned_words) : InAnalyzerRanges(c)
    /\ pc = "cg_save_stats" =>
           /\ \A i \in 1..Len(raw_freq) : \A j \in 1..Len(raw_freq[i][1]) :
                  InArabicRanges(raw_freq[i][1][j])
           /\ \A i \in 1..Len(cleaned_freq) : \A j \in 1..Len(cleaned_freq[i][1]) :
                  InArabicRanges(cleaned_freq[i][1][j])

NotSpaceNorTerminator(c) == ~IsSpace(c) /\ c \notin {FULLSTOP, QMARK, BANG}

\* C3: no token of either tokenization strategy contains a whitespace
\* character or a sentence terminator (U+06D4, U+061F, '!').
C3_TokensWithoutSpaceOrTerminator ==
    /\ pc = "drop_empty" =>
           \A i \in 1..Len(processed_sentences) :
               \A c \in CharsOf(Words(processed_sentences[i])) : NotSpaceNorTerminator(c)
    /\ pc = "ana_freq" => /\ \A c \in CharsOf(raw_words) : NotSpaceNorTerminator(c)
                          /\ \A c \in CharsOf(cleaned_words) : NotSpaceNorTerminator(c)
    /\ pc = "cg_save_stats" =>
           /\ \A i \in 1..Len(raw_freq) : \A j \in 1..Len(raw_freq[i][1]) :
                  NotSpaceNorTerminator(raw_freq[i][1][j])
           /\ \A i \in 1..Len(cleaned_freq) : \A j \in 1..Len(cleaned_freq[i][1]) :
                  NotSpaceNorTerminator(cleaned_freq[i][1][j])

Occurrences(ws, w) == Cardinality({j \in 1..Len(ws) : ws[j] = w})
FirstSeen(ws, w) == CHOOSE j \in 1..Len(ws) : ws[j] = w /\ \A x \in 1..(j - 1) : ws[x] # w

\* w ranks before v in the frequency table of ws
RanksBefore(ws, w, v) ==
    \/ Occurrences(ws, w) > Occurrences(ws, v)
    \/ Occurrences(ws, w) = Occurrences(ws, v) /\ FirstSeen(ws, w) < FirstSeen(ws, v)

\* pairs is the most-common-n answer for the token sequence ws
MostCommonOf(ws, n, pairs) ==
    /\ Len(pairs) = IF n < Cardinality(SetOf(ws)) THEN n ELSE Cardinality(SetOf(ws))
    /\ \A i \in 1..Len(pairs) :
           /\ pairs[i][1] \in SetOf(ws)
           /\ pairs[i][2] = Occurrences(ws, pairs[i][1])
    /\ \A i \in 1..Len(pairs) : \A j \in (i + 1)..Len(pairs) :
           RanksBefore(ws, pairs[i][1], pairs[j][1])
    /\ \A w \in SetOf(ws) :
           (\A i \in 1..Len(pairs) : pairs[i][1] # w) =>
               \A i \in 1..Len(pairs) : RanksBefore(ws, pairs[i][1], w)

\* C9: the most-common-N query returns min(N, distinct) pairs with the true
\* counts, by descending count, equal counts by first occurrence; the
\* frequency CSV ranks them 1, 2, ... in that order.
C9_MostCommonOrder ==
    /\ pc = "ana_visualize" => /\ MostCommonOf(raw_words, 50, raw_word_freq)
                               /\ MostCommonOf(cleaned_words, 50, cleaned_word_freq)
    /\ (pc = "cg_plots" /\ top_n_words >= 0) =>
           /\ MostCommonOf(extract_words(cleaned_text), top_n_words,
                           [i \in 1..Len(word_frequency_csv) |->
                               <<word_frequency_csv[i][2], word_frequency_csv[i][3]>>])
           /\ \A i \in 1..Len(word_frequency_csv) : word_frequency_csv[i][1] = i

\* three distinct tokens, two asked for, the two reported tied on the count
C9_Witness ==
    /\ pc = "cg_plots"
    /\ top_n_words = 2
    /\ Len(cleaned_freq) = 3
    /\ Len(word_frequency_csv) = 2
    /\ word_frequency_csv[1][3] = word_frequency_csv[2][3]
    /\ word_frequency_csv[1][3] = 2

\* C10: a ratio whose denominator is zero yields 0 and raises nothing:
\* the three averages of the statistics, the change percentages of
\* compare_corpora, and the two change percentages of print_analysis_summary.
C10_ZeroDenominatorYieldsZero ==
    /\ pc = "ana_freq" =>
           /\ raw_stats.total_words = 0 =>
                  IsZero(raw_stats.avg_word_length) /\ IsZero(raw_stats.vocabulary_diversity)
           /\ raw_stats.total_sentences = 0 => IsZero(raw_stats.avg_sentence_length)
    /\ (pc = "ana_summary" /\ raw_stats.total_words = 0) =>
           IsZero(comparison[1]) /\ IsZero(comparison[2]) /\ IsZero(comparison[3])
    /\ (pc \in {"ana_done", "ana_crashed"} /\ raw_stats.total_words = 0) =>
           error = "none" /\ IsZero(summary[1]) /\ IsZero(summary[2])
    /\ pc = "cg_save_stats" =>
           (raw_stats.word_count = 0 => raw_stats.avg_word_length = 0)

(***************************************************************************)
(* Properties of an analysis run on the file the pipeline wrote.           *)
(***************************************************************************)

\* C11: re-loading the written cleaned corpus and computing its sentence
\* count gives the number of processed sentences that were written: the
\* analyzer's total_sentences, and chatgpt.py's count of non-blank lines,
\* equal the number of lines the pipeline wrote.
C11_RoundTripSentenceCount ==
    /\ pc = "ana_freq" => cleaned_stats.total_sentences = Len(processed_sentences)
    /\ pc = "cg_save_stats" => cleaned_stats.line_count = Len(processed_sentences)

\* the part of C11 the code keeps: chatgpt.py counts the lines written
C11_LineCountRoundTrip ==
    pc = "cg_save_stats" => cleaned_stats.line_count = Len(processed_sentences)

(***************************************************************************)
(* Properties of the three scripts together.                               *)
(***************************************************************************)

\* C12: in every entry point the loaded corpus text is NFC-normalized before
\* any length, split or token-extraction operation: once a script has loaded
\* its text and moved on to those operations, the text they act on is the
\* normalized content of the file, and the analyzer's character count is the
\* length of the normalized text.
C12_NormalizedBeforeUse ==
    /\ pc \in {"filter", "whitespace"} => text = NFC(text)
    /\ pc \in {"ana_stats", "ana_freq", "ana_visualize", "ana_save", "ana_summary"}
          => /\ raw_text = NFC(raw_file.content)
             /\ cleaned_text = NFC(cleaned_file.content)
    /\ pc \in {"ana_freq", "ana_visualize", "ana_save", "ana_summary"}
          => /\ raw_stats.total_characters = Len(NFC(raw_file.content))
             /\ cleaned_stats.total_characters = Len(NFC(cleaned_file.content))
    /\ pc \in {"cg_save_stats", "cg_save_freq", "cg_plots", "cg_return"}
          => /\ raw_text = NFC(raw_file.content)
             /\ cleaned_text = NFC(cleaned_file.content)

\* a corpus file that is present and holds at least one word
Usable(f) == f.exists /\ Words(f.content) # <<>>

\* C13: when one of the two corpus files is missing and the other is usable,
\* the analysis run is not fatal: it never stops early or with an exception,
\* and where it completes it has emitted a warning and written its outputs.
C13_OneMissingCorpusIsNotFatal ==
    (\/ ~raw_file.exists /\ Usable(cleaned_file)
     \/ ~cleaned_file.exists /\ Usable(raw_file))
        => /\ pc \notin {"ana_returned", "ana_crashed", "cg_returned"}
           /\ pc \in {"ana_done", "cg_done"}
                 => /\ warnings # {}
                    /\ "word_frequency.csv" \in written

(***************************************************************************)
(* Properties of chatgpt.py.                                               *)
(***************************************************************************)

\* C14: a negative --top-n-words is rejected before any analysis output is
\* written: for a negative top-N, main never returns 0 and the frequency CSV
\* is never written.
C14_NegativeTopNRejected ==
    top_n_words < 0 => /\ pc \in {"cg_returned", "cg_done"} => exit_code # 0
                       /\ "word_frequency.csv" \notin written

(***************************************************************************)
(* Further properties of the cleaning pipeline.                            *)
(***************************************************************************)

\* a Western digit 0-9 or an Arabic-Indic digit U+0660..U+0669
IsDigit(c) == (48 <= c /\ c <= 57) \/ (1632 <= c /\ c <= 1641)

\* C15: after the character-removal step the text contains no digit, neither
\* Western nor Arabic-Indic, and none reaches the cleaned corpus file.
C15_NoDigitSurvives ==
    /\ pc \in {"whitespace", "split"}
          => \A i \in 1..Len(clean_text) : ~IsDigit(clean_text[i])
    /\ pc = "done"
          => \A i \in 1..Len(output_file.content) : ~IsDigit(output_file.content[i])

\* the ends of the lines of a written file: the positions of its newlines
LineEnds(c) == {i \in 1..Len(c) : c[i] = NL}

\* the start of the line that ends at position e of c
LineStart(c, e) ==
    LET before == {i \in LineEnds(c) : i < e}
    IN  IF before = {} THEN 1
        ELSE (CHOOSE b \in before : \A o \in before : o <= b) + 1

\* the lines written to a file, as a set of texts without their newline
LinesOf(c) == {SubSeq(c, LineStart(c, e), e - 1) : e \in LineEnds(c)}

\* the maximal runs of non-space characters of a line, each as <<first, last>>
WordSpans(l) ==
    {sp \in (1..Len(l)) \X (1..Len(l)) :
        /\ sp[1] <= sp[2]
        /\ \A i \in sp[1]..sp[2] : ~IsSpace(l[i])
        /\ sp[1] = 1 \/ IsSpace(l[sp[1] - 1])
        /\ sp[2] = Len(l) \/ IsSpace(l[sp[2] + 1])}

\* a well-formed line of the cleaned corpus
GoodLine(l) ==
    /\ Cardinality(WordSpans(l)) >= 1
    /\ Cardinality(WordSpans(l)) <= max_words
    /\ \A sp \in WordSpans(l) : SubSeq(l, sp[1], sp[2]) \notin stopwords
    /\ ~IsSpace(l[1]) /\ ~IsSpace(l[Len(l)])
    /\ \A i \in 1..Len(l) : IsSpace(l[i]) => l[i] = SPACE
    /\ \A i \in 1..(Len(l) - 1) : ~(l[i] = SPACE /\ l[i + 1] = SPACE)
    /\ \A i \in 1..Len(l) : l[i] # FULLSTOP /\ l[i] # QMARK

\* C16: every line written to the cleaned corpus file has at least 1 and at
\* most max_words words, none of them a stopword, its words separated by
\* single spaces with no leading or trailing space, and holds no U+06D4 or
\* U+061F; the file ends with a newline and holds exactly the processed
\* sentences, none of them empty.
C16_WrittenLinesWellFormed ==
    pc = "done"
        => /\ output_file.exists
           /\ output_file.content # <<>>
                 => output_file.content[Len(output_file.content)] = NL
           /\ \A l \in LinesOf(output_file.content) : GoodLine(l)
           /\ Cardinality(LineEnds(output_file.content)) = Len(processed_sentences)

\* a corpus of more than max_words words was chunked, a stopword was removed
\* from its first chunk, and both chunks were written
C16_Witness ==
    /\ pc = "done"
    /\ stopwords # {}
    /\ Len(processed_sentences) = 2
    /\ Cardinality(WordSpans(processed_sentences[1])) = max_words - 1
    /\ Cardinality(LineEnds(output_file.content)) = 2

(***************************************************************************)
(* Further properties of an analysis run on the file the pipeline wrote.   *)
(***************************************************************************)

\* C17: on the content of the cleaned corpus file the pipeline wrote, the
\* whitespace tokenization and the script-run extraction of chatgpt.py give
\* the same token sequence, so the word count and the frequencies chatgpt.py
\* derives are those of the whitespace tokens.
C17_StrategiesAgreeOnCleanedText ==
    pc \in {"cg_save_stats", "cg_save_freq", "cg_plots", "cg_return", "cg_done"}
        => /\ extract_words(cleaned_text) = Words(cleaned_text)
           /\ extract_words(cleaned_text) = Words(cleaned_file.content)
           /\ cleaned_stats.word_count = Len(Words(cleaned_file.content))
           /\ cleaned_freq = Counter(Words(cleaned_file.content))

\* chatgpt.py has read a cleaned corpus of two lines that the pipeline made
\* from a raw text with a Latin letter and a terminator in it
C17_Witness ==
    /\ pc = "cg_save_stats"
    /\ Len(processed_sentences) = 2
    /\ cleaned_stats.word_count >= 2
    /\ \E i \in 1..Len(raw_file.content) : raw_file.content[i] = LATIN_A
    /\ \E i \in 1..Len(raw_file.content) : raw_file.content[i] = FULLSTOP

====
